---- MODULE Spec2Model ----
(***************************************************************************)
(* Risk-Aware-Router: the path-carrying Dijkstra search                    *)
(* calculate_optimal_route (risk_router.py, duplicated in app.py) over a   *)
(* networkx undirected graph built with add_edge, and the reference city   *)
(* map of build_city_map.                                                  *)
(*                                                                         *)
(* One behaviour is one call of calculate_optimal_route: Init is the state *)
(* after lines 16-20 for some graph, start_node, end_node and weight_type; *)
(* every action is one iteration of the `while queue` loop, or the return  *)
(* after it.                                                               *)
(***************************************************************************)
EXTENDS Integers, Sequences, FiniteSets, TLC

(***************************************************************************)
(* Bounds of the generic graph family.                                     *)
(***************************************************************************)
\* largest edge weight of a generic graph
MaxWeight == 3
\* generic graphs carry weights down to -NegWeight
NegWeight == 2

(***************************************************************************)
(* Names and their Python str ordering.                                    *)
(***************************************************************************)
\* every node name used, in Python's str order ('A' < 'B' < 'C' < 'Home'
\* < 'Nowhere' < 'Office'); "Nowhere" is never added to any graph
SortedNames == <<"A", "B", "C", "Home", "Nowhere", "Office">>

Names == {SortedNames[i] : i \in 1..Len(SortedNames)}

Keys == {"risk", "distance"}

\* position of a name in Python's str order
StrRank(s) == CHOOSE i \in 1..Len(SortedNames) : SortedNames[i] = s

\* Python `a < b` on two str
str_lt(a, b) == StrRank(a) < StrRank(b)

\* Python `p < q` on two lists of str (lexicographic)
RECURSIVE list_lt(_, _)
list_lt(p, q) ==
    IF q = <<>> THEN FALSE
    ELSE IF p = <<>> THEN TRUE
    ELSE IF Head(p) # Head(q) THEN str_lt(Head(p), Head(q))
    ELSE list_lt(Tail(p), Tail(q))

\* Python `a < b` on two queue entries (cost, node, path)
tuple_lt(a, b) ==
    IF a[1] # b[1] THEN a[1] < b[1]
    ELSE IF a[2] # b[2] THEN str_lt(a[2], b[2])
    ELSE list_lt(a[3], b[3])

(***************************************************************************)
(* The graph: networkx's dict of dicts, node -> neighbor -> attributes.    *)
(* An attribute dict is a set of <<key, value>> pairs with distinct keys.  *)
(***************************************************************************)
\* nx.Graph()
EmptyGraph == [n \in {} |-> [m \in {} |-> {}]]

\* dict.update: the pairs of new replace those of old with the same key
dict_update(old, new) ==
    {kv \in old : \A nw \in new : nw[1] # kv[1]} \cup new

\* G.add_node(n): a node without neighbors, unless already known
add_node(G, n) ==
    IF n \in DOMAIN G THEN G
    ELSE [x \in DOMAIN G \cup {n} |->
            IF x = n THEN [m \in {} |-> {}] ELSE G[x]]

\* G.add_edge(u, v, **attrs): creates both nodes when missing, and stores
\* the (updated) attribute dict under adj[u][v] and adj[v][u]
add_edge(G, u, v, attrs) ==
    LET G1 == add_node(add_node(G, u), v)
        old == IF v \in DOMAIN G1[u] THEN G1[u][v] ELSE {}
        dd  == dict_update(old, attrs)
        row(x, y) == [m \in DOMAIN G1[x] \cup {y} |->
                         IF m = y THEN dd ELSE G1[x][m]]
    IN  [x \in DOMAIN G1 |->
            IF x = u /\ x = v THEN row(u, u)
            ELSE IF x = u THEN row(u, v)
            ELSE IF x = v THEN row(v, u)
            ELSE G1[x]]

\* for u, v, dist, risk in roads: G.add_edge(u, v, distance=dist, risk=risk)
RECURSIVE add_roads(_, _)
add_roads(G, rs) ==
    IF rs = <<>> THEN G
    ELSE add_roads(add_edge(G, rs[1][1], rs[1][2],
                            {<<"distance", rs[1][3]>>, <<"risk", rs[1][4]>>}),
                   Tail(rs))

\* a city map whose last road, B - Office, was left out
roads_without_last ==
    << <<"Home", "A", 5, 2>>,
       <<"Home", "B", 15, 1>>,
       <<"A", "C", 5, 8>>,
       <<"B", "C", 5, 1>>,
       <<"A", "Office", 20, 5>>,
       <<"C", "Office", 5, 2>> >>

\* the literal of build_city_map: (Node A, Node B, Distance, Risk Score)
roads ==
    << <<"Home", "A", 5, 2>>,
       <<"Home", "B", 15, 1>>,
       <<"A", "C", 5, 8>>,
       <<"B", "C", 5, 1>>,
       <<"A", "Office", 20, 5>>,
       <<"C", "Office", 5, 2>>,
       <<"B", "Office", 25, 1>> >>

build_city_map == add_roads(EmptyGraph, roads)

\* the subsequence of rs at the positions in keep, in order
RECURSIVE SubSeqAt(_, _, _)
SubSeqAt(rs, keep, i) ==
    IF i > Len(rs) THEN <<>>
    ELSE IF i \in keep THEN <<rs[i]>> \o SubSeqAt(rs, keep, i + 1)
    ELSE SubSeqAt(rs, keep, i + 1)

\* the city map with any of its roads closed (the map itself included)
CityMaps ==
    {add_roads(EmptyGraph, SubSeqAt(roads, keep, 1)) :
        keep \in SUBSET (1..Len(roads))}

(***************************************************************************)
(* Generic small graphs over three nodes: every pair of distinct nodes is  *)
(* absent, joined by an edge without attributes, or joined by an edge with *)
(* a risk in -NegWeight..MaxWeight; in addition the graph may have all     *)
(* three nodes added up front, or one self-loop.                           *)
(***************************************************************************)
GenNodes == {"A", "B", "C"}

GenPairs == << <<"A", "B">>, <<"A", "C">>, <<"B", "C">> >>

\* what one pair carries: <<>> no edge, <<attrs>> an edge with those attrs
EdgeOptions ==
    {<<>>, <<{}>>} \cup {<<{<<"risk", w>>}>> : w \in (0 - NegWeight)..MaxWeight}

GenExtras == {"none", "nodes"} \cup GenNodes

RECURSIVE add_pairs(_, _, _)
add_pairs(G, choice, i) ==
    IF i > Len(GenPairs) THEN G
    ELSE IF choice[i] = <<>> THEN add_pairs(G, choice, i + 1)
    ELSE add_pairs(add_edge(G, GenPairs[i][1], GenPairs[i][2], choice[i][1]),
                   choice, i + 1)

GenBase(extra) ==
    IF extra = "none" THEN EmptyGraph
    ELSE IF extra = "nodes"
         THEN add_node(add_node(add_node(EmptyGraph, "A"), "B"), "C")
    ELSE add_edge(EmptyGraph, extra, extra, {})

GenGraphs ==
    {add_pairs(GenBase(extra), choice, 1) :
        extra \in GenExtras, choice \in [1..Len(GenPairs) -> EdgeOptions]}

Graphs == CityMaps \cup GenGraphs

(***************************************************************************)
(* calculate_optimal_route                                                 *)
(***************************************************************************)
VARIABLES
    graph,        \* argument: the graph (never written by the search)
    start_node,   \* argument
    end_node,     \* argument
    weight_type,  \* argument: 'risk' or 'distance'
    queue,        \* the heap: a set of <<cost, node, path>>
    visited,      \* set of finalized nodes
    min_costs,    \* dict node -> lowest cost pushed so far
    pc,           \* "loop", "done" (returned) or "raised" (KeyError)
    ret,          \* the returned (cost, path); inf marks float('inf')
    popped,       \* history: the <<cost, node>> of every heappop, in order
    finalized     \* history: the nodes added to visited, in order

vars == <<graph, start_node, end_node, weight_type, queue, visited,
          min_costs, pc, ret, popped, finalized>>

args == <<graph, start_node, end_node, weight_type>>

\* attributes.get(weight_type, 0): a missing attribute costs nothing
edge_weight_default_zero(attributes, key) ==
    IF \E kv \in attributes : kv[1] = key
    THEN (CHOOSE kv \in attributes : kv[1] = key)[2]
    ELSE 0

\* attributes.get(weight_type, 1)
edge_weight(attributes, key) ==
    IF \E kv \in attributes : kv[1] = key
    THEN (CHOOSE kv \in attributes : kv[1] = key)[2]
    ELSE 1

\* a pop of the greatest entry instead of the least
heappop_largest(q) == CHOOSE e \in q : \A f \in q : f = e \/ tuple_lt(f, e)

\* heapq.heappop's result: the least entry under tuple comparison.  The
\* heap is kept as the set of its entries; the least entry of a heap does
\* not depend on the heap's layout.
heappop(q) == CHOOSE e \in q : \A f \in q : f = e \/ tuple_lt(e, f)

\* queue = [(0, start_node, [start_node])]: the start is already on the path
initial_queue_with_start(s) == {<<0, s, <<s>>>>}

\* queue = [(0, start_node, [])]
initial_queue(s) == {<<0, s, <<>>>>}

\* the visited test left out: no popped entry is ever skipped
is_stale_never(node, vis) == FALSE

\* `if node in visited: continue`
is_stale(node, vis) == node \in vis

\* path = [node] + path
extend_path_front(path, node) == <<node>> \o path

\* path = path + [node]
extend_path(path, node) == Append(path, node)

\* new_cost = edge_weight: the accumulated cost is dropped
new_cost_edge_only(cost, w) == w

\* new_cost = cost + edge_weight
new_cost(cost, w) == cost + w

\* `if neighbor not in min_costs`: only the first cost seen is ever queued
is_cheaper_first_only(mc, neighbor, nc) == neighbor \notin DOMAIN mc

\* `if neighbor not in min_costs or new_cost < min_costs[neighbor]`
is_cheaper(mc, neighbor, nc) ==
    neighbor \notin DOMAIN mc \/ nc < mc[neighbor]

\* return cost, path
found(cost, path) == [inf |-> FALSE, cost |-> cost, path |-> path]

\* return 0, []
no_path_zero == [inf |-> FALSE, cost |-> 0, path |-> <<>>]

\* return float('inf'), []
no_path == [inf |-> TRUE, cost |-> 0, path |-> <<>>]

\* no value returned (yet)
no_ret == [inf |-> FALSE, cost |-> 0, path |-> <<>>]

Init ==
    /\ graph \in Graphs
    /\ start_node \in DOMAIN graph \cup {"Nowhere"}
    /\ end_node \in DOMAIN graph \cup {"Nowhere"}
    /\ weight_type \in Keys
    /\ queue = initial_queue(start_node)
    /\ visited = {}
    /\ min_costs = [n \in {start_node} |-> 0]
    /\ pc = "loop"
    /\ ret = no_ret
    /\ popped = <<>>
    /\ finalized = <<>>

\* lines 24-28: the popped node is already visited, `continue`
PopStale ==
    /\ pc = "loop"
    /\ queue # {}
    /\ LET e == heappop(queue) IN
        /\ is_stale(e[2], visited)
        /\ queue' = queue \ {e}
        /\ popped' = Append(popped, <<e[1], e[2]>>)
    /\ UNCHANGED <<args, visited, min_costs, pc, ret, finalized>>

\* lines 24-36: the popped node is end_node, `return cost, path`
PopGoal ==
    /\ pc = "loop"
    /\ queue # {}
    /\ LET e == heappop(queue) IN
        /\ ~is_stale(e[2], visited)
        /\ e[2] = end_node
        /\ queue' = queue \ {e}
        /\ popped' = Append(popped, <<e[1], e[2]>>)
        /\ visited' = visited \cup {e[2]}
        /\ finalized' = Append(finalized, e[2])
        /\ ret' = found(e[1], extend_path(e[3], e[2]))
    /\ pc' = "done"
    /\ UNCHANGED <<args, min_costs>>

\* lines 24-48: the popped node is finalized and its neighbors are relaxed
PopExpand ==
    /\ pc = "loop"
    /\ queue # {}
    /\ LET e == heappop(queue)
           cost == e[1]
           node == e[2]
           path == extend_path(e[3], e[2])
       IN
        /\ ~is_stale(node, visited)
        /\ node # end_node
        /\ node \in DOMAIN graph
        /\ LET nc(m) == new_cost(cost, edge_weight(graph[node][m], weight_type))
               pushed == {m \in DOMAIN graph[node] :
                             /\ m \notin visited \cup {node}
                             /\ is_cheaper(min_costs, m, nc(m))}
           IN
            /\ queue' = (queue \ {e}) \cup {<<nc(m), m, path>> : m \in pushed}
            /\ min_costs' = [m \in DOMAIN min_costs \cup pushed |->
                                IF m \in pushed THEN nc(m) ELSE min_costs[m]]
        /\ popped' = Append(popped, <<cost, node>>)
        /\ visited' = visited \cup {node}
        /\ finalized' = Append(finalized, node)
    /\ UNCHANGED <<args, pc, ret>>

\* line 39: graph[node] on a node that is not in the graph raises KeyError
PopKeyError ==
    /\ pc = "loop"
    /\ queue # {}
    /\ LET e == heappop(queue) IN
        /\ ~is_stale(e[2], visited)
        /\ e[2] # end_node
        /\ e[2] \notin DOMAIN graph
        /\ queue' = queue \ {e}
        /\ popped' = Append(popped, <<e[1], e[2]>>)
        /\ visited' = visited \cup {e[2]}
        /\ finalized' = Append(finalized, e[2])
    /\ pc' = "raised"
    /\ UNCHANGED <<args, min_costs, ret>>

\* lines 22, 50: the queue is empty, `return float('inf'), []`
ReturnNoPath ==
    /\ pc = "loop"
    /\ queue = {}
    /\ ret' = no_path
    /\ pc' = "done"
    /\ UNCHANGED <<args, queue, visited, min_costs, popped, finalized>>

Next ==
    \/ PopStale
    \/ PopGoal
    \/ PopExpand
    \/ PopKeyError
    \/ ReturnNoPath

Spec == Init /\ [][Next]_vars

\* the interpreter always runs the next iteration of the loop
FairSpec == Spec /\ WF_vars(Next)

(***************************************************************************)
(* What the properties are measured against: edges, weights and simple     *)
(* paths read off the graph directly.                                      *)
(***************************************************************************)
InGraph(n) == n \in DOMAIN graph

Adjacent(u, v) == InGraph(u) /\ v \in DOMAIN graph[u]

HasWeight(u, v) == \E kv \in graph[u][v] : kv[1] = weight_type

\* the weight_type value of the edge u - v, 1 when the edge lacks it
WeightOf(u, v) ==
    IF HasWeight(u, v)
    THEN (CHOOSE kv \in graph[u][v] : kv[1] = weight_type)[2]
    ELSE 1

NonNegative ==
    \A u \in DOMAIN graph : \A v \in DOMAIN graph[u] : WeightOf(u, v) >= 0

SomeNegative ==
    \E u \in DOMAIN graph : \E v \in DOMAIN graph[u] : WeightOf(u, v) < 0

IsWalk(p) == \A i \in 1..(Len(p) - 1) : Adjacent(p[i], p[i + 1])

NoRepeat(p) == \A i, j \in 1..Len(p) : p[i] = p[j] => i = j

RECURSIVE PathSum(_)
PathSum(p) ==
    IF Len(p) <= 1 THEN 0 ELSE WeightOf(p[1], p[2]) + PathSum(Tail(p))

\* the costs of all simple paths from cur to end_node that avoid seen
RECURSIVE PathCosts(_, _)
PathCosts(cur, seen) ==
    IF cur = end_node THEN {0}
    ELSE IF ~InGraph(cur) THEN {}
    ELSE UNION {{WeightOf(cur, m) + c : c \in PathCosts(m, seen \cup {m})} :
                   m \in DOMAIN graph[cur] \ seen}

AllPathCosts == PathCosts(start_node, {start_node})

Reachable == AllPathCosts # {}

SetMin(S) == CHOOSE x \in S : \A y \in S : x <= y

Returned == pc = "done"

Stopped == pc # "loop"

ReferenceCall(key) ==
    /\ graph = build_city_map
    /\ start_node = "Home"
    /\ end_node = "Office"
    /\ weight_type = key

\* C1: with non-negative weights and end reachable from start, the call
\* returns, and the returned cost is the least cost of any start-to-end path.
Optimality ==
    (NonNegative /\ Reachable /\ Stopped) =>
        /\ Returned
        /\ ~ret.inf
        /\ ret.cost = SetMin(AllPathCosts)

\* a returned optimum that beats the direct start - end edge
OptimalityWitness ==
    /\ Returned /\ NonNegative /\ Reachable
    /\ Len(ret.path) >= 3
    /\ Adjacent(start_node, end_node)
    /\ ret.cost < WeightOf(start_node, end_node)
    /\ Len(popped) > Len(finalized)

\* C2 as stated: on the reference map, Home to Office by risk returns cost 4
\* and path [Home, B, C, Office].
RiskRouteAsClaimed ==
    (ReferenceCall("risk") /\ Stopped) =>
        /\ Returned
        /\ ret = [inf |-> FALSE, cost |-> 4,
                  path |-> <<"Home", "B", "C", "Office">>]

\* C2 amended: on the reference map, Home to Office by risk returns cost 2
\* and path [Home, B, Office].
RiskRoute ==
    (ReferenceCall("risk") /\ Stopped) =>
        /\ Returned
        /\ ret = [inf |-> FALSE, cost |-> 2, path |-> <<"Home", "B", "Office">>]

RiskRouteWitness == ReferenceCall("risk") /\ Returned /\ ~ret.inf

\* C3 as stated: on the reference map, Home to Office by distance returns
\* cost exactly 25.
DistanceRouteAsClaimed ==
    (ReferenceCall("distance") /\ Stopped) =>
        /\ Returned
        /\ ~ret.inf
        /\ ret.cost = 25

\* C3 amended: on the reference map, Home to Office by distance returns cost
\* exactly 15 (along Home, A, C, Office).
DistanceRoute ==
    (ReferenceCall("distance") /\ Stopped) =>
        /\ Returned
        /\ ~ret.inf
        /\ ret.cost = 15
        /\ PathSum(ret.path) = 15

DistanceRouteWitness ==
    ReferenceCall("distance") /\ Returned /\ Len(ret.path) = 4

\* C4: a start that is not in the graph and differs from end ends the call
\* with the unreachable result (infinite cost, empty path) and no error.
UnknownStartNoError ==
    (~InGraph(start_node) /\ start_node # end_node /\ Stopped) =>
        /\ Returned
        /\ ret.inf
        /\ ret.path = <<>>

\* C5: a returned non-empty path starts with start, ends with end, repeats
\* no node, and every consecutive pair of it is an edge of the graph.
PathValidity ==
    (Returned /\ ret.path # <<>>) =>
        /\ ret.path[1] = start_node
        /\ ret.path[Len(ret.path)] = end_node
        /\ NoRepeat(ret.path)
        /\ IsWalk(ret.path)

PathValidityWitness ==
    Returned /\ Len(ret.path) >= 3 /\ Len(popped) > Len(finalized)

\* C6: the weight sum along a returned non-empty path (1 for an edge without
\* the attribute) is the returned cost, and every queued candidate's cost is
\* the weight sum along its path followed by its node.
CostPathConsistency ==
    /\ (Returned /\ ret.path # <<>>) =>
          IsWalk(ret.path) /\ PathSum(ret.path) = ret.cost
    /\ \A e \in queue :
          /\ IsWalk(Append(e[3], e[2]))
          /\ PathSum(Append(e[3], e[2])) = e[1]

\* a returned path of two or more edges, one with and one without the weight
CostPathConsistencyWitness ==
    /\ Returned
    /\ Len(ret.path) >= 3
    /\ \E i \in 1..(Len(ret.path) - 1) : ~HasWeight(ret.path[i], ret.path[i + 1])
    /\ \E i \in 1..(Len(ret.path) - 1) :
          HasWeight(ret.path[i], ret.path[i + 1])
          /\ WeightOf(ret.path[i], ret.path[i + 1]) # 1

\* C7: with start in the graph and end not reachable from it, the call
\* returns infinite cost and an empty path, and raises nothing.
Unreachability ==
    (InGraph(start_node) /\ ~Reachable /\ Stopped) =>
        /\ Returned
        /\ ret.inf
        /\ ret.path = <<>>

\* end lies in another component, with edges of its own
UnreachabilityWitness ==
    /\ Returned /\ InGraph(start_node) /\ ~Reachable
    /\ InGraph(end_node)
    /\ DOMAIN graph[end_node] # {}
    /\ Cardinality(visited) >= 2

\* C8: a call with start = end = X, X in the graph, returns cost 0 and the
\* path [X].
TrivialPath ==
    (InGraph(start_node) /\ start_node = end_node /\ Stopped) =>
        /\ Returned
        /\ ret = [inf |-> FALSE, cost |-> 0, path |-> <<start_node>>]

\* X has a neighbor at negative weight
TrivialPathWitness ==
    /\ Returned /\ InGraph(start_node) /\ start_node = end_node
    /\ \E m \in DOMAIN graph[start_node] : WeightOf(start_node, m) < 0

FinalizedOnce == NoRepeat(finalized)

\* the directed edges of the graph: at most one push each
Arcs == {<<u, v>> : u \in DOMAIN graph, v \in DOMAIN graph} \cap
        {uv \in Names \X Names : Adjacent(uv[1], uv[2])}

\* C9: when the graph contains start, whatever the weights: no node is
\* finalized twice, the pops never exceed one per edge direction plus the
\* seed, nothing is raised, and the call eventually returns.
Termination ==
    /\ [](InGraph(start_node) =>
            /\ FinalizedOnce
            /\ Len(popped) <= 1 + Cardinality(Arcs)
            /\ pc # "raised")
    /\ (InGraph(start_node) => <>Returned)

\* a drained queue after stale discards, on a graph with a negative weight
TerminationWitness ==
    /\ Returned /\ InGraph(start_node) /\ SomeNegative
    /\ ret.inf
    /\ queue = {}
    /\ Len(popped) > Len(finalized)
    /\ Len(finalized) >= 3

\* C10: with non-negative weights the extracted costs never decrease, so a
\* later candidate of a node costs no less than the node's first extraction.
ExtractionOrder ==
    NonNegative =>
        \A i, j \in 1..Len(popped) : i < j => popped[i][1] <= popped[j][1]

\* a node extracted a second time, at a strictly higher cost, and discarded
ExtractionOrderWitness ==
    /\ NonNegative
    /\ \E i, j \in 1..Len(popped) :
          /\ i < j
          /\ popped[i][2] = popped[j][2]
          /\ popped[i][1] < popped[j][1]
          /\ Len(finalized) < Len(popped)
====
